---- MODULE Spec2Model ----
(***************************************************************************)
(* Model of src/server.js: a React single-page app (component App) that    *)
(* signs a user in through a hosted auth service, looks the user up in an  *)
(* admin allow-list document, subscribes to a shared activity feed and     *)
(* lets the user post records to it.                                       *)
(*                                                                         *)
(* Every browser running the app is a client.  The React state of a client *)
(* (userId, isAuthReady, isAdmin, loading, globalActivities, logMessage)   *)
(* is a function over Clients.  Every await of the source is a point where *)
(* a handler is suspended; the suspended handlers are kept in signInAwait, *)
(* signInResolved, checks, feedPc and pending, and the step that resumes   *)
(* one is an action of its own.  The hosted backend (auth user, admin      *)
(* document, feed collection, server clock) is shared state.               *)
(*                                                                         *)
(* Text is a sequence of tokens; " " is the blank token.                   *)
(***************************************************************************)
EXTENDS Integers, Sequences, FiniteSets, TLC

VARIABLES
    \* environment of a client, fixed when the page is loaded
    app,              \* firebaseConfig is non-empty: app, db and auth are non-null
    initialAuthToken, \* __initial_auth_token: the uid it signs in, or Null
    \* hosted backend
    adminDoc,         \* the document at ADMINS_DOC_PATH
    authUser,         \* the auth service's current user of each client
    authEvents,       \* auth-state callbacks queued for delivery to each client
    feed,             \* the collection at ACTIVITIES_COLLECTION_PATH: id -> data
    clock,            \* the server clock behind serverTimestamp()
    nextId,           \* generator of the auto ids of doc(collection(...))
    \* React state of App
    userId, isAuthReady, isAdmin, loading, globalActivities, logMessage,
    \* suspended handlers
    mounted,          \* the mount effects have run
    signInAwait,      \* null-callbacks awaiting signIn...()
    signInResolved,   \* null-callbacks whose signIn...() has resolved
    checks,           \* user-callbacks awaiting getDoc, per uid
    feedPc,           \* logInitialActivity: idle, query, write, done
    listening,        \* the onSnapshot listener is attached
    pending,          \* logUserActivity invocations awaiting setDoc
    \* history
    checkLog,         \* the latest completed checkAdminStatus: uid and read outcome
    lastSnapshot,     \* the documents of the latest snapshot delivered
    clicks,           \* invocations of logUserActivity so far
    signOuts          \* sign-outs so far

vars == <<app, initialAuthToken, adminDoc, authUser, authEvents, feed, clock,
          nextId, userId, isAuthReady, isAdmin, loading, globalActivities,
          logMessage, mounted, signInAwait, signInResolved, checks, feedPc,
          listening, pending, checkLog, lastSnapshot, clicks, signOuts>>

authVars == <<authUser, authEvents, signInAwait, signInResolved, checks, signOuts>>
feedVars == <<feed, clock, nextId, feedPc, listening, pending, lastSnapshot, clicks>>
envVars  == <<app, initialAuthToken, adminDoc, mounted>>

----------------------------------------------------------------------------
(* Bounds *)

MaxSignOuts == 1
MaxClicks == 2
SeedClicks == 1
PostClicks == 3
FeedClicks == 100

Clients == {"c1", "c2"}
Users == {"u1", "u2"}
Null == "null"
ANONYMOUS == "anonymous"
SYSTEM == "SYSTEM"

\* what a user types into the input field
Inputs == { <<>>, <<" ">>, <<" ", "a", " ">>, <<"b">> }

\* the shapes of the admin document the backend may hold
AdminDocs ==
    { [kind |-> "missing", ids |-> {}],
      [kind |-> "nouids",  ids |-> {}],
      [kind |-> "array",   ids |-> {}],
      [kind |-> "array",   ids |-> {"u1"}],
      [kind |-> "map",     ids |-> {"u1"}] }

----------------------------------------------------------------------------
(* Program constants *)

QueryLimit == 100
SeedId == 0
NullTimestamp == 0
DayTicks == 24

LOGGING == <<"Logging...">>
ERROR_LOGGING == <<"Error logging activity.">>
APP_VERSION == "1.0"

initialActivity ==
    [content |-> <<"Initial activity logged to public feed.">>, userId |-> SYSTEM]

----------------------------------------------------------------------------
(* Pure functions *)

RECURSIVE TrimLeft(_)
TrimLeft(s) == IF s # <<>> /\ Head(s) = " " THEN TrimLeft(Tail(s)) ELSE s

RECURSIVE TrimRight(_)
TrimRight(s) ==
    IF s # <<>> /\ s[Len(s)] = " " THEN TrimRight(SubSeq(s, 1, Len(s) - 1)) ELSE s

\* String.prototype.trim
Trim(s) == TrimRight(TrimLeft(s))

\* the uids the admin document lists, whatever the shape of the field
AdminUids(d) == IF d.kind \in {"array", "map"} THEN d.ids ELSE {}

\* checkAdminStatus: the value given to setIsAdmin once getDoc has settled.
\* A rejected read and a missing document give false; a missing uids field
\* gives the empty list; includes() exists on an array only, so a map-shaped
\* field throws a TypeError that the catch turns into false.
IsUserAdmin(d, u, outcome) ==
    IF outcome # "ok" THEN FALSE
    ELSE IF d.kind = "missing" THEN FALSE
    ELSE IF d.kind = "nouids" THEN FALSE
    ELSE IF d.kind = "array" THEN u \in d.ids
    ELSE FALSE

\* timestamp?.toDate()?.toLocaleTimeString() || 'N/A': the time of day only
FormatTimestamp(t) ==
    IF t = NullTimestamp THEN "N/A" ELSE ToString(t % DayTicks)

\* { id: d.id, ...d.data(), timestamp: <formatted> }
Activity(d) ==
    [f \in DOMAIN d.data \cup {"id", "timestamp"} |->
        IF f = "id" THEN d.id
        ELSE IF f = "timestamp" THEN
            FormatTimestamp(IF "timestamp" \in DOMAIN d.data
                            THEN d.data.timestamp ELSE NullTimestamp)
        ELSE d.data[f]]

\* orderBy('timestamp', 'desc') over the documents of collection f: the ids
\* given out so far, newest id first, those that exist, sorted by timestamp
OrderByTimestampDesc(f) ==
    LET ids == [i \in 1..nextId |-> nextId - i]
        present == SelectSeq(ids, LAMBDA i : i \in DOMAIN f)
        sorted == SortSeq(present, LAMBDA a, b : f[a].timestamp > f[b].timestamp)
    IN  [i \in 1..Len(sorted) |-> [id |-> sorted[i], data |-> f[sorted[i]]]]

Limit(s, n) == IF Len(s) <= n THEN s ELSE SubSeq(s, 1, n)

\* query(collection, orderBy('timestamp', 'desc'), limit(100))
QueryActivities(f) == Limit(OrderByTimestampDesc(f), QueryLimit)

\* disabled={!logMessage.trim() || logMessage === 'Logging...'}
ButtonEnabled(m) == Trim(m) # <<>> /\ m # LOGGING

\* the main render has passed the loading screen and chose UserDashboard
UserDashboardShown(c) == ~loading[c] /\ ~isAdmin[c]
AdminDashboardShown(c) == ~loading[c] /\ isAdmin[c]
RoleLabel(c) == IF isAdmin[c] THEN "Administrator" ELSE "Standard User"

----------------------------------------------------------------------------
(* Initial states *)

NoCheck == [uid |-> Null, res |-> "none"]

InitWith(active, apps, tokens, docs, users) ==
    /\ app \in [Clients -> BOOLEAN]
    /\ \A c \in Clients : app[c] \in (IF c \in active THEN apps ELSE {FALSE})
    /\ initialAuthToken \in [Clients -> tokens \cup {Null}]
    /\ \A c \in Clients : initialAuthToken[c] \in
            (IF c \in active /\ app[c] THEN tokens ELSE {Null})
    /\ adminDoc \in docs
    /\ authUser \in [Clients -> users \cup {Null}]
    /\ \A c \in Clients : authUser[c] \in
            (IF c \in active /\ app[c] THEN users ELSE {Null})
    /\ authEvents = [c \in Clients |-> <<>>]
    /\ feed = <<>>
    /\ clock = 1
    /\ nextId = 1
    /\ userId = [c \in Clients |-> Null]
    /\ isAuthReady = [c \in Clients |-> FALSE]
    /\ isAdmin = [c \in Clients |-> FALSE]
    /\ loading = [c \in Clients |-> TRUE]
    /\ globalActivities = [c \in Clients |-> <<>>]
    /\ logMessage = [c \in Clients |-> <<>>]
    /\ mounted = [c \in Clients |-> FALSE]
    /\ signInAwait = [c \in Clients |-> 0]
    /\ signInResolved = [c \in Clients |-> 0]
    /\ checks = [c \in Clients |-> [u \in Users |-> 0]]
    /\ feedPc = [c \in Clients |-> "idle"]
    /\ listening = [c \in Clients |-> FALSE]
    /\ pending = [c \in Clients |-> {}]
    /\ checkLog = [c \in Clients |-> NoCheck]
    /\ lastSnapshot = [c \in Clients |-> <<>>]
    /\ clicks = [c \in Clients |-> 0]
    /\ signOuts = [c \in Clients |-> 0]

----------------------------------------------------------------------------
(* 1. Authentication and initialisation *)

\* the mount effect: without auth it only clears loading; with auth it
\* registers the auth-state callback, which is first called with the current user
Mount(c) ==
    /\ ~mounted[c]
    /\ mounted' = [mounted EXCEPT ![c] = TRUE]
    /\ IF ~app[c]
       THEN /\ loading' = [loading EXCEPT ![c] = FALSE]
            /\ UNCHANGED authEvents
       ELSE /\ authEvents' = [authEvents EXCEPT ![c] = <<authUser[c]>>]
            /\ UNCHANGED loading
    /\ UNCHANGED <<app, initialAuthToken, adminDoc, authUser, signInAwait,
                   signInResolved, checks, signOuts, feedVars, userId,
                   isAuthReady, isAdmin, globalActivities, logMessage, checkLog>>

\* the callback called with a user: setUserId, then checkAdminStatus up to
\* its await (or, on its early return, straight to the end of the callback)
AuthCallbackUser(c) ==
    /\ authEvents[c] # <<>>
    /\ Head(authEvents[c]) # Null
    /\ LET u == Head(authEvents[c]) IN
       /\ authEvents' = [authEvents EXCEPT ![c] = Tail(@)]
       /\ userId' = [userId EXCEPT ![c] = u]
       /\ IF ~app[c] \/ u = Null
          THEN /\ isAuthReady' = [isAuthReady EXCEPT ![c] = TRUE]
               /\ loading' = [loading EXCEPT ![c] = FALSE]
               /\ UNCHANGED checks
          ELSE /\ checks' = [checks EXCEPT ![c][u] = @ + 1]
               /\ UNCHANGED <<isAuthReady, loading>>
    /\ UNCHANGED <<envVars, authUser, signInAwait, signInResolved, signOuts,
                   feedVars, isAdmin, globalActivities, logMessage, checkLog>>

\* the rest of checkAdminStatus once getDoc has settled, and the end of the
\* callback that awaited it
CheckAdminStatusDone(c, u, outcome) ==
    /\ checks[c][u] > 0
    /\ checks' = [checks EXCEPT ![c][u] = @ - 1]
    /\ isAdmin' = [isAdmin EXCEPT ![c] = IsUserAdmin(adminDoc, u, outcome)]
    /\ checkLog' = [checkLog EXCEPT ![c] = [uid |-> u, res |-> outcome]]
    /\ isAuthReady' = [isAuthReady EXCEPT ![c] = TRUE]
    /\ loading' = [loading EXCEPT ![c] = FALSE]
    /\ UNCHANGED <<envVars, authUser, authEvents, signInAwait, signInResolved,
                   signOuts, feedVars, userId, globalActivities, logMessage>>

\* the callback called with no user, up to the await of the sign-in
AuthCallbackNull(c) ==
    /\ authEvents[c] # <<>>
    /\ Head(authEvents[c]) = Null
    /\ authEvents' = [authEvents EXCEPT ![c] = Tail(@)]
    /\ signInAwait' = [signInAwait EXCEPT ![c] = @ + 1]
    /\ UNCHANGED <<envVars, authUser, signInResolved, checks, signOuts, feedVars,
                   userId, isAuthReady, isAdmin, loading, globalActivities,
                   logMessage, checkLog>>

\* the auth service signs the client in: the token's user, or a user of its
\* choice for an anonymous sign-in; the auth-state callback is queued
SignInSucceeds(c, u) ==
    /\ signInAwait[c] > 0
    /\ initialAuthToken[c] # Null => u = initialAuthToken[c]
    /\ signInAwait' = [signInAwait EXCEPT ![c] = @ - 1]
    /\ signInResolved' = [signInResolved EXCEPT ![c] = @ + 1]
    /\ authUser' = [authUser EXCEPT ![c] = u]
    /\ authEvents' = [authEvents EXCEPT ![c] = Append(@, u)]
    /\ UNCHANGED <<envVars, checks, signOuts, feedVars, userId, isAuthReady,
                   isAdmin, loading, globalActivities, logMessage, checkLog>>

\* the null-callback after its sign-in resolved
SignInContinue(c) ==
    /\ signInResolved[c] > 0
    /\ signInResolved' = [signInResolved EXCEPT ![c] = @ - 1]
    /\ isAuthReady' = [isAuthReady EXCEPT ![c] = TRUE]
    /\ loading' = [loading EXCEPT ![c] = FALSE]
    /\ UNCHANGED <<envVars, authUser, authEvents, signInAwait, checks, signOuts,
                   feedVars, userId, isAdmin, globalActivities, logMessage,
                   checkLog>>

\* SignInFails as a catch block that returns before the end of the callback
SignInFailsReturning(c) ==
    /\ signInAwait[c] > 0
    /\ signInAwait' = [signInAwait EXCEPT ![c] = @ - 1]
    /\ userId' = [userId EXCEPT ![c] = ANONYMOUS]
    /\ UNCHANGED <<envVars, authUser, authEvents, signInResolved, checks,
                   signOuts, feedVars, isAdmin, globalActivities, logMessage,
                   checkLog, isAuthReady, loading>>

\* the sign-in is rejected: the catch block, then the end of the callback
SignInFails(c) ==
    /\ signInAwait[c] > 0
    /\ signInAwait' = [signInAwait EXCEPT ![c] = @ - 1]
    /\ userId' = [userId EXCEPT ![c] = ANONYMOUS]
    /\ isAuthReady' = [isAuthReady EXCEPT ![c] = TRUE]
    /\ loading' = [loading EXCEPT ![c] = FALSE]
    /\ UNCHANGED <<envVars, authUser, authEvents, signInResolved, checks,
                   signOuts, feedVars, isAdmin, globalActivities, logMessage,
                   checkLog>>

\* the auth service reports that the user is signed out (session revoked,
\* signed out in another tab): the auth-state callback is queued with no user
SignOut(c) ==
    /\ mounted[c]
    /\ authUser[c] # Null
    /\ signOuts[c] < MaxSignOuts
    /\ signOuts' = [signOuts EXCEPT ![c] = @ + 1]
    /\ authUser' = [authUser EXCEPT ![c] = Null]
    /\ authEvents' = [authEvents EXCEPT ![c] = Append(@, Null)]
    /\ UNCHANGED <<envVars, signInAwait, signInResolved, checks, feedVars,
                   userId, isAuthReady, isAdmin, loading, globalActivities,
                   logMessage, checkLog>>

----------------------------------------------------------------------------
(* 3. Real-time public activity listener *)

\* the effect that runs once db and isAuthReady hold: logInitialActivity is
\* started (up to its await of getDocs) and the snapshot listener is attached
StartFeedEffect(c) ==
    /\ app[c]
    /\ isAuthReady[c]
    /\ feedPc[c] = "idle"
    /\ feedPc' = [feedPc EXCEPT ![c] = "query"]
    /\ listening' = [listening EXCEPT ![c] = TRUE]
    /\ UNCHANGED <<envVars, authVars, feed, clock, nextId, pending, lastSnapshot,
                   clicks, userId, isAuthReady, isAdmin, loading,
                   globalActivities, logMessage, checkLog>>

\* the next position of logInitialActivity once getDocs(limit(1)) has settled
AfterSeedQuery(f, outcome) ==
    IF outcome = "ok" /\ DOMAIN f = {} THEN "write" ELSE "done"

\* logInitialActivity after getDocs: the seed write is called when the
\* one-record query came back empty
SeedQuery(c, outcome) ==
    /\ feedPc[c] = "query"
    /\ feedPc' = [feedPc EXCEPT ![c] = AfterSeedQuery(feed, outcome)]
    /\ UNCHANGED <<envVars, authVars, feed, clock, nextId, listening, pending,
                   lastSnapshot, clicks, userId, isAuthReady, isAdmin, loading,
                   globalActivities, logMessage, checkLog>>

\* SeedDocId as a write that addresses a document of the client's own
SeedDocIdPerClient(c) == IF c = "c1" THEN SeedId ELSE SeedId - 1

\* the id of the document the seed write addresses: doc(db, PATH, 'system-init')
SeedDocId(c) == SeedId

\* setDoc(ref, data): the document is created, or replaced when it exists;
\* serverTimestamp() becomes the server's time of the write
SetDoc(f, id, data, t) ==
    (id :> [g \in DOMAIN data \cup {"timestamp"} |->
                IF g = "timestamp" THEN t ELSE data[g]]) @@ f

\* the backend settles the seed write
SeedWrite(c, outcome) ==
    /\ feedPc[c] = "write"
    /\ feedPc' = [feedPc EXCEPT ![c] = "done"]
    /\ IF outcome = "ok"
       THEN /\ feed' = SetDoc(feed, SeedDocId(c), initialActivity, clock)
            /\ clock' = clock + 1
       ELSE UNCHANGED <<feed, clock>>
    /\ UNCHANGED <<envVars, authVars, nextId, listening, pending, lastSnapshot,
                   clicks, userId, isAuthReady, isAdmin, loading,
                   globalActivities, logMessage, checkLog>>

\* OnSnapshot as a callback that adds the snapshot to what is already shown
OnSnapshotAppending(old, docs) == old \o [i \in 1..Len(docs) |-> Activity(docs[i])]

\* the value the snapshot callback gives to setGlobalActivities
OnSnapshot(old, docs) == [i \in 1..Len(docs) |-> Activity(docs[i])]

\* the backend delivers the current result of the listener's query
Snapshot(c) ==
    /\ listening[c]
    /\ LET docs == QueryActivities(feed) IN
       /\ lastSnapshot' = [lastSnapshot EXCEPT ![c] = docs]
       /\ globalActivities' =
            [globalActivities EXCEPT ![c] = OnSnapshot(globalActivities[c], docs)]
    /\ UNCHANGED <<envVars, authVars, feed, clock, nextId, feedPc, listening,
                   pending, clicks, userId, isAuthReady, isAdmin, loading,
                   logMessage, checkLog>>

\* the listener's error callback: the error is logged and the listener is dead
SnapshotError(c) ==
    /\ listening[c]
    /\ listening' = [listening EXCEPT ![c] = FALSE]
    /\ UNCHANGED <<envVars, authVars, feed, clock, nextId, feedPc, pending,
                   lastSnapshot, clicks, userId, isAuthReady, isAdmin, loading,
                   globalActivities, logMessage, checkLog>>

----------------------------------------------------------------------------
(* logUserActivity and the UserDashboard *)

\* onChange of the input field
TypeMessage(c, txt) ==
    /\ UserDashboardShown(c)
    /\ txt # logMessage[c]
    /\ logMessage' = [logMessage EXCEPT ![c] = txt]
    /\ UNCHANGED <<envVars, authVars, feedVars, userId, isAuthReady, isAdmin,
                   loading, globalActivities, checkLog>>

\* the early return of logUserActivity
ReturnsEarly(c) == ~app[c] \/ userId[c] = Null \/ Trim(logMessage[c]) = <<>>

\* the data handed to setDoc (serverTimestamp() is filled in by the server)
ActivityData(c) ==
    [content |-> Trim(logMessage[c]), userId |-> userId[c],
     is_admin |-> isAdmin[c], app_version |-> APP_VERSION]

\* a click on Log Activity: logUserActivity up to its await of setDoc
LogUserActivity(c, maxClicks) ==
    /\ UserDashboardShown(c)
    /\ ButtonEnabled(logMessage[c])
    /\ clicks[c] < maxClicks
    /\ clicks' = [clicks EXCEPT ![c] = @ + 1]
    /\ IF ReturnsEarly(c)
       THEN UNCHANGED <<logMessage, pending, nextId>>
       ELSE /\ logMessage' = [logMessage EXCEPT ![c] = LOGGING]
            /\ pending' = [pending EXCEPT ![c] =
                    @ \cup {[id |-> nextId, msg |-> logMessage[c],
                             data |-> ActivityData(c)]}]
            /\ nextId' = nextId + 1
    /\ UNCHANGED <<envVars, authVars, feed, clock, feedPc, listening,
                   lastSnapshot, userId, isAuthReady, isAdmin, loading,
                   globalActivities, checkLog>>

\* AfterInsert as a handler that leaves a rejected insert queued for another try
AfterInsertRetrying(ps, p, outcome) == IF outcome = "ok" THEN ps \ {p} ELSE ps

\* the invocations still awaiting setDoc after p's setDoc resolved or rejected
AfterInsert(ps, p, outcome) == ps \ {p}

\* the backend settles the insert of invocation p; the rest of logUserActivity
InsertDone(c, p, outcome) ==
    /\ p \in pending[c]
    /\ pending' = [pending EXCEPT ![c] = AfterInsert(@, p, outcome)]
    /\ IF outcome = "ok"
       THEN /\ feed' = SetDoc(feed, p.id, p.data, clock)
            /\ clock' = clock + 1
            /\ logMessage' = [logMessage EXCEPT ![c] = <<>>]
       ELSE /\ logMessage' = [logMessage EXCEPT ![c] = ERROR_LOGGING]
            /\ UNCHANGED <<feed, clock>>
    /\ UNCHANGED <<envVars, authVars, nextId, feedPc, listening, lastSnapshot,
                   clicks, userId, isAuthReady, isAdmin, loading,
                   globalActivities, checkLog>>

----------------------------------------------------------------------------
(* Specifications *)

Outcomes == {"ok", "error"}

\* the steps of the authentication effect and of the auth service
AuthStep(c) ==
    \/ Mount(c)
    \/ AuthCallbackUser(c)
    \/ \E u \in Users, o \in Outcomes : CheckAdminStatusDone(c, u, o)
    \/ AuthCallbackNull(c)
    \/ \E u \in Users : SignInSucceeds(c, u)
    \/ SignInContinue(c)
    \/ SignInFails(c)
    \/ SignOut(c)

\* one client, every outcome of every call to the auth service, the admin
\* document and the insert
Init == InitWith({"c1"}, BOOLEAN, {Null, "u1"}, AdminDocs, {Null} \cup Users)

Next ==
    \E c \in {"c1"} :
        \/ AuthStep(c)
        \/ \E txt \in Inputs : TypeMessage(c, txt)
        \/ LogUserActivity(c, MaxClicks)
        \/ \E p \in pending[c], o \in Outcomes : InsertDone(c, p, o)

Spec == Init /\ [][Next]_vars

\* one client that signs in once and posts: every way logUserActivity can
\* return, with the auth service never signing the user out
InitPost ==
    InitWith({"c1"}, BOOLEAN, {Null}, {[kind |-> "array", ids |-> {"u1"}]},
             {Null, "u2"})

NextPost ==
    \E c \in {"c1"} :
        \/ Mount(c)
        \/ AuthCallbackUser(c)
        \/ \E u \in Users, o \in Outcomes : CheckAdminStatusDone(c, u, o)
        \/ AuthCallbackNull(c)
        \/ \E u \in Users : SignInSucceeds(c, u)
        \/ SignInContinue(c)
        \/ SignInFails(c)
        \/ \E txt \in Inputs : TypeMessage(c, txt)
        \/ LogUserActivity(c, PostClicks)
        \/ \E p \in pending[c], o \in Outcomes : InsertDone(c, p, o)

SpecPost == InitPost /\ [][NextPost]_vars

\* the authentication effect alone, with every call to the backend settled
\* sooner or later (the sign-out is the environment's and need not happen)
LiveClient == "c1"

NextAuth == AuthStep(LiveClient)

Fairness ==
    /\ WF_vars(Mount(LiveClient))
    /\ WF_vars(AuthCallbackUser(LiveClient))
    /\ WF_vars(AuthCallbackNull(LiveClient))
    /\ WF_vars(\E u \in Users, o \in Outcomes : CheckAdminStatusDone(LiveClient, u, o))
    /\ WF_vars((\E u \in Users : SignInSucceeds(LiveClient, u)) \/ SignInFails(LiveClient))
    /\ WF_vars(SignInContinue(LiveClient))

SpecLive == Init /\ [][NextAuth]_vars /\ Fairness

\* two clients with a persisted session each that start at the same time,
\* seed the feed and post
InitSeed ==
    InitWith(Clients, {TRUE}, {Null}, {[kind |-> "array", ids |-> {"u1"}]}, {"u2"})

NextSeed ==
    \E c \in Clients :
        \/ Mount(c)
        \/ AuthCallbackUser(c)
        \/ \E u \in Users, o \in Outcomes : CheckAdminStatusDone(c, u, o)
        \/ StartFeedEffect(c)
        \/ \E o \in Outcomes : SeedQuery(c, o)
        \/ \E o \in Outcomes : SeedWrite(c, o)
        \/ TypeMessage(c, <<"b">>)
        \/ LogUserActivity(c, SeedClicks)
        \/ \E p \in pending[c], o \in Outcomes : InsertDone(c, p, o)

SpecSeed == InitSeed /\ [][NextSeed]_vars

\* one client whose user posts one message after the other until the feed
\* holds more records than the listener's query returns
InitFeed == InitWith({"c1"}, {TRUE}, {Null}, {[kind |-> "missing", ids |-> {}]}, {"u1"})

NextFeed ==
    \E c \in {"c1"} :
        \/ Mount(c)
        \/ AuthCallbackUser(c)
        \/ \E u \in Users : CheckAdminStatusDone(c, u, "ok")
        \/ StartFeedEffect(c)
        \/ SeedQuery(c, "ok")
        \/ SeedWrite(c, "ok")
        \/ Snapshot(c)
        \/ SnapshotError(c)
        \/ logMessage[c] = <<>> /\ TypeMessage(c, <<"b">>)
        \/ feedPc[c] = "done" /\ pending[c] = {} /\ LogUserActivity(c, FeedClicks)
        \/ \E p \in pending[c] : InsertDone(c, p, "ok")

SpecFeed == InitFeed /\ [][NextFeed]_vars

----------------------------------------------------------------------------
(* Properties checked under Spec *)

\* the records of the feed written by logUserActivity
Posts == {id \in DOMAIN feed : id >= 1}

\* the claim's reading of the allow-list: the document exists and its uids
\* collection contains u
Listed(u) == adminDoc.kind # "missing" /\ u \in AdminUids(adminDoc)

\* C1: once checkAdminStatus(u) has completed, isAdmin is true exactly when
\* the read succeeded, the admin document exists and its uids collection
\* contains u, and the role label reads accordingly.
C1_AdminIffListed ==
    \A c \in Clients :
        checkLog[c].res # "none" =>
            /\ isAdmin[c] = (checkLog[c].res = "ok" /\ Listed(checkLog[c].uid))
            /\ RoleLabel(c) = IF checkLog[c].res = "ok" /\ Listed(checkLog[c].uid)
                              THEN "Administrator" ELSE "Standard User"

\* C2: whenever the loading screen is not shown, the Admin panel is rendered
\* only if the userId held by the app is a member of the admin list's uids.
C2_AdminPanelOnlyForListed ==
    \A c \in Clients : AdminDashboardShown(c) => Listed(userId[c])

\* C6: logUserActivity issues a write only when userId is the uid the auth
\* service currently reports as signed in, and the record carries that uid.
C6_OnlyAuthenticatedPost ==
    [][\A c \in Clients : \A p \in pending'[c] \ pending[c] :
            /\ authUser[c] # Null
            /\ userId[c] = authUser[c]
            /\ p.data.userId = authUser[c]]_vars

\* C9: the loading screen is dismissed only after the admin check of the
\* signed-in uid: no state has loading false, userId listed in a readable
\* admin list and the app still without the admin role, and no record of a
\* listed user is posted with is_admin false.
C9_CheckedBeforeShown ==
    /\ \A c \in Clients :
          ( /\ ~loading[c]
            /\ adminDoc.kind = "array"
            /\ userId[c] \in adminDoc.ids
            /\ checkLog[c].res # "error" ) => isAdmin[c]
    /\ \A id \in Posts :
          adminDoc.kind = "array" /\ feed[id].userId \in adminDoc.ids
              => feed[id].is_admin

\* C10: the content of every record written by logUserActivity is text the
\* user entered, never one of the status strings, and at most one insert of
\* a client is in flight.
C10_OnlyUserTextPosted ==
    /\ \A id \in Posts :
          /\ feed[id].content \in {Trim(t) : t \in Inputs}
          /\ feed[id].content \notin {LOGGING, ERROR_LOGGING}
    /\ \A c \in Clients : Cardinality(pending[c]) <= 1

----------------------------------------------------------------------------
(* Properties checked under SpecPost *)

\* the invocations of logUserActivity awaiting setDoc, of all clients
InFlight == UNION {pending[c] : c \in Clients}

C7_Step ==
    /\ \A c \in Clients :
          \* an invocation: nothing changes on the early return, otherwise
          \* exactly one insert is issued, of the trimmed message
          /\ clicks'[c] # clicks[c] =>
                IF ReturnsEarly(c)
                THEN UNCHANGED <<feed, pending, logMessage, nextId, clock, userId,
                                 isAdmin, loading, isAuthReady, globalActivities>>
                ELSE /\ feed' = feed
                     /\ \E p \in pending'[c] \ pending[c] :
                           /\ pending'[c] = pending[c] \cup {p}
                           /\ p.id \notin DOMAIN feed
                           /\ p.id \notin {q.id : q \in InFlight}
                           /\ p.data.content = Trim(logMessage[c])
          \* a rejected insert: the status string is set, the invocation is
          \* over and nothing is added to the feed
          /\ logMessage'[c] = ERROR_LOGGING /\ logMessage[c] # ERROR_LOGGING =>
                /\ feed' = feed
                /\ \E p \in pending[c] : pending'[c] = pending[c] \ {p}
          \* an invocation that ends has added its one record, with the message
          \* state reset, or has added nothing, with the status string set
          /\ \A p \in pending[c] \ pending'[c] :
                \/ /\ p.id \notin DOMAIN feed
                   /\ DOMAIN feed' = DOMAIN feed \cup {p.id}
                   /\ \A id \in DOMAIN feed : feed'[id] = feed[id]
                   /\ feed'[p.id].content = Trim(p.msg)
                   /\ logMessage'[c] = <<>>
                \/ /\ feed' = feed
                   /\ logMessage'[c] = ERROR_LOGGING
    \* the feed grows only by the record of an invocation that ends
    /\ feed' # feed => \E c \in Clients : pending[c] \ pending'[c] # {}

\* C7: each invocation of logUserActivity performs at most one insert and
\* never retries; the early return changes nothing; a successful insert
\* stores the trimmed message and resets the message state; a failed insert
\* adds nothing and sets the status string.
C7_AtMostOneInsert == [][C7_Step]_vars

\* of three invocations one returned early, one inserted a trimmed message
\* and the last one was rejected
C7_Witness ==
    \E c \in Clients :
        /\ clicks[c] = 3
        /\ nextId = 3
        /\ logMessage[c] = ERROR_LOGGING
        /\ pending[c] = {}
        /\ \E id \in Posts : feed[id].content = <<"a">>

----------------------------------------------------------------------------
(* Properties checked under SpecFeed *)

Ids(s) == [i \in 1..Len(s) |-> s[i].id]

\* C3: globalActivities is the content of the latest snapshot delivered: the
\* same record ids in the same order, newest first, at most 100 of them,
\* none of them twice.
C3_ShowsLastSnapshot ==
    \A c \in Clients :
        /\ Len(globalActivities[c]) <= QueryLimit
        /\ Ids(globalActivities[c]) = Ids(lastSnapshot[c])
        /\ \A i \in 1..Len(globalActivities[c]) :
              /\ globalActivities[c][i].content = lastSnapshot[c][i].data.content
              /\ globalActivities[c][i].userId = lastSnapshot[c][i].data.userId
        /\ \A i \in 1..(Len(lastSnapshot[c]) - 1) :
              /\ lastSnapshot[c][i].data.timestamp > lastSnapshot[c][i + 1].data.timestamp
              /\ lastSnapshot[c][i].id # lastSnapshot[c][i + 1].id

\* the feed holds more records than the query returns, the snapshot shown
\* is full, and the oldest record, shown by an earlier snapshot, is gone
C3_Witness ==
    /\ Cardinality(DOMAIN feed) > QueryLimit
    /\ Len(globalActivities["c1"]) = QueryLimit
    /\ SeedId \in DOMAIN feed
    /\ \A i \in 1..QueryLimit : globalActivities["c1"][i].id # SeedId

----------------------------------------------------------------------------
(* Properties checked under SpecSeed *)

SeedRecords == {id \in DOMAIN feed : feed[id].userId = SYSTEM}

\* C4: once a record exists in the feed no step changes any of its fields or
\* removes it; the feed only grows by records that were not there.
C4_RecordsImmutable ==
    [][\A id \in DOMAIN feed : id \in DOMAIN feed' /\ feed'[id] = feed[id]]_vars

\* C5: the feed holds at most one seed record, and a client issues the seed
\* write only when its own one-record query found the collection empty.
C5_OneSeed ==
    /\ [](Cardinality(SeedRecords) <= 1)
    /\ [][\A c \in Clients :
            feedPc'[c] = "write" /\ feedPc[c] # "write" => DOMAIN feed = {}]_vars

\* both clients found the feed empty and both have written the seed, with a
\* user record in the feed as well
C5_Witness ==
    /\ \A c \in Clients : feedPc[c] = "done"
    /\ clock > 3
    /\ Cardinality(SeedRecords) = 1
    /\ Posts # {}

----------------------------------------------------------------------------
(* Properties checked under SpecLive *)

\* C8: when every call to the backend settles, loading becomes false, and
\* once it is false it is never true again.
C8_LoadingEnds ==
    /\ <>(~loading[LiveClient])
    /\ [][\A c \in Clients : ~loading[c] => ~loading'[c]]_vars

\* loading was cleared after a sign-in that failed
C8_Witness ==
    /\ ~loading[LiveClient]
    /\ app[LiveClient]
    /\ userId[LiveClient] = ANONYMOUS

====
